---- MODULE Spec2Model ----
(***************************************************************************)
(* turbo-stream: the streaming orchestration of src/src/turbo-stream.ts.   *)
(*                                                                         *)
(* encode() flattens a value into a fragment table, emits the table as the *)
(* first line and then one settlement line per deferred value, in the      *)
(* order the promise jobs run.  decode() reads the first line, returns the *)
(* hydrated value and keeps reading settlement lines that fulfil or reject *)
(* the placeholders of that value.                                         *)
(*                                                                         *)
(* flatten, unflatten, Deferred and the line splitter live in flatten.js,  *)
(* unflatten.js and utils.js, which are not part of the sources at hand:   *)
(* they are modelled from their contracts in spec.md section 6.            *)
(***************************************************************************)
EXTENDS Integers, Sequences, FiniteSets, TLC

\* ------------------------------------------------------------------ bounds
\* Number of composite objects a value graph is built from.
MaxObj == 2
\* Number of lines an arbitrary (not encoder-made) stream carries.
MaxLines == 3

\* ------------------------------------------------------- the value universe
\* Wire markers (imported from utils.js at turbo-stream.ts:5-7).
TYPE_PROMISE == "P"
TYPE_ERROR == "E"
TYPE_PREVIOUS_RESOLVED == "Z"

Objs == 1..MaxObj
\* The promises of the value graph; object o holds promises o and o+1, so two
\* neighbouring objects share one promise identity.
Futures == 1..(MaxObj + 1)
Nested(o) == {o, o + 1}

\* An inline literal (undefined, null, NaN, ...) and the composite objects.
Lits == {<<"lit", -1>>}
ObjVals == {<<"obj", o>> : o \in Objs}
Resolutions == Lits \cup ObjVals
\* What a promise rejects with: an Error object, or something that is no Error.
Rejections == {<<"err", 1>>, <<"str", 0>>}
\* signal.reason: an Error object (the default AbortError), or a falsy reason
\* (abort(null)).
SignalReasons == {<<"err", 0>>, <<"nil", 0>>}
None == <<"none", 0>>

Pending == [st |-> "pending", v |-> None]
Fulfilled(v) == [st |-> "fulfilled", v |-> v]
Rejected(v) == [st |-> "rejected", v |-> v]
Outcomes == {Fulfilled(v) : v \in Resolutions} \cup {Rejected(e) : e \in Rejections}

VARIABLES
    \* the environment of encode
    fut,              \* the state of every promise of the value graph, as it is
                      \* when flatten meets the promise and from then on
    signal,           \* options.signal: [st, reason]
    settledLog,       \* history [on, log]: when on, log lists the promises in the
                      \* order they completed, each with the stage of its entry
    \* encode
    encoderDeferred,  \* encoder.deferred: id -> [f, stage, out]
    index,            \* encoder.index, the fragment cursor
    indices,          \* encoder.indices: identity -> table index
    stringified,      \* encoder.stringified, the fragment table
    lastSentIndex,    \* the high-water mark
    epc,              \* where start() stands
    raceSet,          \* the promises the await of line 242 or 244 waits for
    jobs,             \* the promise jobs of decided races, in queue order
    wire,             \* the lines enqueued on the stream so far
    abortSnap,        \* history: the registry and line count when the signal fired
    \* decode
    rpos,             \* number of lines the reader has delivered
    rstream,          \* state of the readable the reader is locked to
    dpc,              \* where decode stands
    values,           \* decoder.values
    decoderDeferred,  \* decoder.deferred: id -> [st, v, by]
    derr,             \* the reason decodeDeferred rejected with
    donePromise,      \* the promise assigned at line 41
    done              \* done.promise of line 23

envVars == <<fut, signal, settledLog>>
encVars == <<encoderDeferred, index, indices, stringified, lastSentIndex, epc,
             raceSet, jobs, abortSnap>>
decVars == <<rpos, rstream, dpc, values, decoderDeferred, derr, donePromise, done>>
vars == <<fut, signal, settledLog, encoderDeferred, index, indices, stringified, lastSentIndex,
          epc, raceSet, jobs, wire, abortSnap, rpos, rstream, dpc, values,
          decoderDeferred, derr, donePromise, done>>

\* ----------------------------------------------------------------- helpers
RECURSIVE SeqOfSet(_)
\* The elements of a finite set of integers in ascending order (the order
\* Object.entries lists integer keys in).
SeqOfSet(S) ==
    IF S = {} THEN <<>>
    ELSE LET m == CHOOSE x \in S : \A y \in S : x <= y
         IN  <<m>> \o SeqOfSet(S \ {m})

\* Array.prototype.slice(n) on a 0-based array.
slice(s, n) == SubSeq(s, n + 1, Len(s))

\* The empty function.
Empty == [x \in {} |-> None]

\* A line of the stream.  kind "json" is a line that is structured text as a
\* whole (the first line), "frame" is <marker><id>:<payload>.
InitialLine(payload) == [kind |-> "json", m |-> "-", id |-> 0, p |-> payload]
Frame(marker, id, payload) == [kind |-> "frame", m |-> marker, id |-> id, p |-> payload]
SentinelPayload(n) == [t |-> "sent", n |-> n, els |-> <<>>]
ArrayPayload(els) == [t |-> "arr", n |-> 0, els |-> els]

\* ------------------------------------------------------------------ flatten
\* A fragment of the table: a plain fragment of the identity ref, or the
\* placeholder of the deferred value idx.  A slot the cursor passed without
\* writing is a hole of the sparse table.
Plain(i, v) == [k |-> "plain", idx |-> i, ref |-> v]
PromiseFragment(i) == [k |-> "promise", idx |-> i, ref |-> <<"id", i>>]
Hole(i) == [k |-> "hole", idx |-> i, ref |-> None]
Alias(i, target) == [k |-> "alias", idx |-> i, ref |-> <<"idx", target>>]

\* The table with slots Len..cursor-1 left as holes, ready for a write at cursor.
PadTo(table, cursor) ==
    table \o [i \in 1..(cursor - Len(table)) |-> Hole(Len(table) + i - 1)]

\* An Error made on the spot has an identity of its own.
Identity(v, cursor) == IF v[1] = "new" THEN <<"new", cursor>> ELSE v

\* flatten.call(encoder, v): the reference id of v, and the encoder state after
\* it.  A repeated identity yields the back-reference wrapper, an inline literal
\* its negative sentinel; anything else is appended at the cursor, depth first,
\* and each promise met for the first time is registered as a deferred entry
\* under the index of its placeholder fragment.
flatten(v, enc) ==
    IF v \in DOMAIN enc.indices
    THEN [id |-> [shape |-> "backref", n |-> enc.indices[v]], index |-> enc.index,
          indices |-> enc.indices, stringified |-> enc.stringified,
          deferred |-> enc.deferred]
    ELSE IF v[1] = "lit"
    THEN [id |-> [shape |-> "sentinel", n |-> v[2]], index |-> enc.index,
          indices |-> enc.indices, stringified |-> enc.stringified,
          deferred |-> enc.deferred]
    ELSE
      LET at == enc.index
          fresh == IF v[1] = "obj"
                   THEN SeqOfSet({f \in Nested(v[2]) : <<"fut", f>> \notin DOMAIN enc.indices})
                   ELSE <<>>
          n == Len(fresh)
          added == <<Plain(at, Identity(v, at))>>
                   \o [i \in 1..n |-> PromiseFragment(at + i)]
      IN [id |-> [shape |-> "index", n |-> at],
          index |-> at + 1 + n,
          indices |-> [x \in {Identity(v, at)} \cup {<<"fut", fresh[j]>> : j \in 1..n} |->
                         IF x = Identity(v, at) THEN at
                         ELSE at + (CHOOSE j \in 1..n : fresh[j] = x[2])]
                      @@ enc.indices,
          stringified |-> PadTo(enc.stringified, at) \o added,
          deferred |-> [d \in {at + j : j \in 1..n} |->
                          [f |-> fresh[d - at], stage |-> "raw", out |-> Pending]]
                       @@ enc.deferred]

\* The encoder object flatten works on.
Encoder == [index |-> index, indices |-> indices, stringified |-> stringified,
            deferred |-> encoderDeferred]

\* ------------------------------------------------------------------- encode
\* Mutant of raceSignal: the test of signal.aborted, lines 255-256, is left out;
\* the listener of an abort that is over never runs, so the promise decides.
raceSignalNoAbortedTest(promise, sig) == promise

\* raceSignal(promise, signal), lines 253-266: what the returned promise is
\* settled with at once, or Pending when the race is still open.  A promise that
\* is settled already wins Promise.race over an abort that comes later.
raceSignal(promise, sig) ==
    IF sig.st = "none" THEN promise
    ELSE IF sig.st = "aborted"
    THEN Rejected(IF sig.reason[1] = "nil" THEN <<"new", 0>> ELSE sig.reason)
    ELSE promise

\* Mutant of ScanRegistry: without the seenPromises test of line 169 an entry
\* whose callback has run is awaited again, and its promise is fulfilled with
\* undefined.
ScanRegistryNoSeen(reg, sig, futs) ==
    [d \in DOMAIN reg |->
        IF reg[d].stage = "raw"
        THEN LET o == raceSignal(futs[reg[d].f], sig)
             IN  [reg[d] EXCEPT !.stage = IF o.st = "pending" THEN "racing" ELSE "settled",
                                !.out = o]
        ELSE IF reg[d].stage = "handled"
        THEN [reg[d] EXCEPT !.stage = "settled", !.out = Fulfilled(<<"lit", -1>>)]
        ELSE reg[d]]

\* The for loop of lines 168-241: every entry that is not awaited yet is raced
\* against the signal and marked as seen.
ScanRegistry(reg, sig, futs) ==
    [d \in DOMAIN reg |->
        IF reg[d].stage = "raw"
        THEN LET o == raceSignal(futs[reg[d].f], sig)
             IN  [reg[d] EXCEPT !.stage = IF o.st = "pending" THEN "racing" ELSE "settled",
                                !.out = o]
        ELSE reg[d]]

\* The jobs the scan queues: the races it found decided, in key order.
ScanJobs(reg, scanned) ==
    SeqOfSet({d \in DOMAIN reg : reg[d].stage # "settled" /\ scanned[d].stage = "settled"})

\* Mutant of LoopHead: an `if` in place of the `while` of line 167, so the
\* registry is scanned once and Promise.all waits for what it holds then.
LoopHeadOnce(reg, futs) ==
    LET scanned == ScanRegistry(reg, signal, futs)
    IN  /\ encoderDeferred' = scanned
        /\ jobs' = jobs \o ScanJobs(reg, scanned)
        /\ epc' = "all"
        /\ raceSet' = DOMAIN reg

\* Lines 167-244 from the loop head to the next await: the while test, the scan
\* and Promise.race over the registry, or Promise.all over it once it is empty.
\* raceSet is the set of promises the await waits for.
LoopHead(reg, futs) ==
    LET scanned == ScanRegistry(reg, signal, futs)
    IN  /\ encoderDeferred' = scanned
        /\ jobs' = jobs \o ScanJobs(reg, scanned)
        /\ epc' = IF DOMAIN reg = {} THEN "all" ELSE "await"
        /\ raceSet' = DOMAIN reg

\* Mutant of InitialPayload: the first line carries the fragment of the root
\* only, stringified[id], not the joined table.
InitialPayloadRootOnly(r) ==
    IF r.id.n < 0 THEN SentinelPayload(r.id.n)
    ELSE ArrayPayload(<<r.stringified[r.id.n + 1]>>)

\* The payload of the first line, lines 157-164.
InitialPayload(r) ==
    IF r.id.n < 0 THEN SentinelPayload(r.id.n)
    ELSE ArrayPayload(r.stringified)

\* Mutant of InitialLastSent: line 163 takes the length of the table, not its
\* last index.
InitialLastSentLength(r) ==
    IF r.id.n < 0 THEN 0 ELSE Len(r.stringified)

\* The high-water mark after the first line, line 163.
InitialLastSent(r) ==
    IF r.id.n < 0 THEN 0 ELSE Len(r.stringified) - 1

\* The promises flatten registered: each is pending, fulfilled or rejected at
\* that moment, whatever happened to it before the encoder knew of it.
Met(r) == {r.deferred[d].f : d \in DOMAIN r.deferred \ DOMAIN encoderDeferred}
\* An entry of the history: the promise f completed when its entry was at stage.
Completion(f, stage) == [f |-> f, stage |-> stage]
\* The history with more completions, if it is kept at all.
Logged(entries) ==
    IF settledLog.on THEN [settledLog EXCEPT !.log = @ \o entries] ELSE settledLog
MeetPromises(r) ==
    \E met \in [Met(r) -> {Pending} \cup Outcomes] :
        /\ fut' = [f \in Futures |-> IF f \in Met(r) THEN met[f] ELSE fut[f]]
        /\ LET was == SeqOfSet({f \in Met(r) : met[f].st # "pending"})
           IN  settledLog' = Logged([i \in 1..Len(was) |-> Completion(was[i], "unmet")])

\* start(controller), lines 152-242, up to its first await.
Start(root) ==
    /\ epc = "start"
    /\ LET r == flatten(root, Encoder)
       IN  /\ r.id.shape # "backref"
           /\ MeetPromises(r)
           /\ wire' = Append(wire, InitialLine(InitialPayload(r)))
           /\ lastSentIndex' = InitialLastSent(r)
           /\ index' = r.index
           /\ indices' = r.indices
           /\ stringified' = r.stringified
           /\ LoopHead(r.deferred, fut')
    /\ UNCHANGED <<signal, abortSnap, decVars>>

\* Mutant of SettlementPayload: the delta is cut at the high-water mark itself,
\* slice(lastSentIndex), so the last fragment sent goes out again.
SettlementPayloadResend(r, last) ==
    IF r.id.shape = "backref"
    THEN ArrayPayload(<<Alias(r.index, r.id.n)>>)
    ELSE IF r.id.n < 0 THEN SentinelPayload(r.id.n)
    ELSE ArrayPayload(slice(r.stringified, last))

\* The payload a settlement carries, lines 178-200 and 212-234.
SettlementPayload(r, last) ==
    IF r.id.shape = "backref"
    THEN ArrayPayload(<<Alias(r.index, r.id.n)>>)
    ELSE IF r.id.n < 0 THEN SentinelPayload(r.id.n)
    ELSE ArrayPayload(slice(r.stringified, last + 1))

\* Mutant of SettlementIndex: encoder.index++ of lines 184 and 218 is left out.
SettlementIndexNoBump(r) == r.index

\* encoder.index after a settlement, lines 184 and 218.
SettlementIndex(r) ==
    IF r.id.shape = "backref" THEN r.index + 1 ELSE r.index

\* Mutant of SettlementLastSent: lastSentIndex++ of lines 185 and 219 is left
\* out.
SettlementLastSentNoBump(r, last) ==
    IF r.id.shape = "backref" THEN last
    ELSE IF r.id.n < 0 THEN last
    ELSE Len(r.stringified) - 1

\* lastSentIndex after a settlement, lines 185, 199, 219 and 233.
SettlementLastSent(r, last) ==
    IF r.id.shape = "backref" THEN last + 1
    ELSE IF r.id.n < 0 THEN last
    ELSE Len(r.stringified) - 1

\* What both then-callbacks do with the value they flatten.
Settle(marker, d, v) ==
    LET r == flatten(v, Encoder)
    IN  /\ MeetPromises(r)
        /\ wire' = Append(wire, Frame(marker, d, SettlementPayload(r, lastSentIndex)))
        /\ index' = SettlementIndex(r)
        /\ lastSentIndex' = SettlementLastSent(r, lastSentIndex)
        /\ indices' = r.indices
        /\ stringified' = r.stringified
        /\ encoderDeferred' = [r.deferred EXCEPT ![d].stage = "handled"]
        /\ jobs' = Tail(jobs)

\* Lines 203-209: a reason that is no Error becomes a new Error.
NormaliseReason(reason) ==
    IF reason[1] \in {"err", "new"} THEN reason ELSE <<"new", 0>>

\* The fulfilment callback, lines 176-201.
OnResolved ==
    /\ jobs # <<>>
    /\ LET d == Head(jobs)
       IN  /\ encoderDeferred[d].out.st = "fulfilled"
           /\ Settle(TYPE_PROMISE, d, encoderDeferred[d].out.v)
    /\ UNCHANGED <<signal, epc, raceSet, abortSnap, decVars>>

\* The rejection callback, lines 202-235.
OnRejected ==
    /\ jobs # <<>>
    /\ LET d == Head(jobs)
       IN  /\ encoderDeferred[d].out.st = "rejected"
           /\ Settle(TYPE_ERROR, d, NormaliseReason(encoderDeferred[d].out.v))
    /\ UNCHANGED <<signal, epc, raceSet, abortSnap, decVars>>

\* The finally callback, lines 237-239.
Finally(d) ==
    /\ d \in DOMAIN encoderDeferred
    /\ encoderDeferred[d].stage = "handled"
    /\ encoderDeferred' = [x \in DOMAIN encoderDeferred \ {d} |-> encoderDeferred[x]]
    /\ UNCHANGED <<envVars, index, indices, stringified, lastSentIndex, epc, raceSet,
                   jobs, wire, abortSnap, decVars>>

\* Promise.race of line 242 is settled by the first awaited promise that is
\* through its finally; start() goes round the loop.
LoopIter ==
    /\ epc = "await"
    /\ \E d \in raceSet : d \notin DOMAIN encoderDeferred
    /\ LoopHead(encoderDeferred, fut)
    /\ UNCHANGED <<envVars, index, indices, stringified, lastSentIndex, wire,
                   abortSnap, decVars>>

\* Lines 244-246: Promise.all over the registry, then controller.close().
Close ==
    /\ epc = "all"
    /\ \A d \in raceSet : d \notin DOMAIN encoderDeferred
    /\ epc' = "closed"
    /\ UNCHANGED <<envVars, encoderDeferred, index, indices, stringified, lastSentIndex,
                   raceSet, jobs, wire, abortSnap, decVars>>

\* The stage of the entry of the promise f: raw (registered, not awaited yet),
\* racing, settled (its race is decided), handled, or gone from the registry.
StageOf(f) ==
    LET ds == {d \in DOMAIN encoderDeferred : encoderDeferred[d].f = f}
    IN  IF ds = {} THEN "gone" ELSE encoderDeferred[CHOOSE d \in ds : TRUE].stage

\* Mutant of PromiseSettles: the callback of the race that was decided last is
\* run first (a stack of jobs in place of the queue).
PromiseSettlesLifo(f, o) ==
    /\ <<"fut", f>> \in DOMAIN indices
    /\ fut[f].st = "pending"
    /\ fut' = [fut EXCEPT ![f] = o]
    /\ settledLog' = Logged(<<Completion(f, StageOf(f))>>)
    /\ LET hit == {d \in DOMAIN encoderDeferred :
                      encoderDeferred[d].f = f /\ encoderDeferred[d].stage = "racing"}
       IN  /\ encoderDeferred' = [d \in DOMAIN encoderDeferred |->
                 IF d \in hit
                 THEN [encoderDeferred[d] EXCEPT !.stage = "settled", !.out = o]
                 ELSE encoderDeferred[d]]
           /\ jobs' = SeqOfSet(hit) \o jobs
    /\ UNCHANGED <<signal, index, indices, stringified, lastSentIndex, epc, raceSet,
                   wire, abortSnap, decVars>>

\* A promise of the value graph settles.  A race that is open is decided by it.
PromiseSettles(f, o) ==
    /\ <<"fut", f>> \in DOMAIN indices
    /\ fut[f].st = "pending"
    /\ fut' = [fut EXCEPT ![f] = o]
    /\ settledLog' = Logged(<<Completion(f, StageOf(f))>>)
    /\ LET hit == {d \in DOMAIN encoderDeferred :
                      encoderDeferred[d].f = f /\ encoderDeferred[d].stage = "racing"}
       IN  /\ encoderDeferred' = [d \in DOMAIN encoderDeferred |->
                 IF d \in hit
                 THEN [encoderDeferred[d] EXCEPT !.stage = "settled", !.out = o]
                 ELSE encoderDeferred[d]]
           /\ jobs' = jobs \o SeqOfSet(hit)
    /\ UNCHANGED <<signal, index, indices, stringified, lastSentIndex, epc, raceSet,
                   wire, abortSnap, decVars>>

\* Mutant of Abort: no listener is added at line 259, so the abort event
\* rejects nothing.
AbortIgnored ==
    /\ epc # "start"
    /\ signal.st = "idle"
    /\ signal' = [signal EXCEPT !.st = "aborted"]
    /\ abortSnap' = [fired |-> TRUE, lines |-> Len(wire),
                     open |-> {d \in DOMAIN encoderDeferred :
                                  encoderDeferred[d].stage \in {"raw", "racing"}},
                     decided |-> {d \in DOMAIN encoderDeferred :
                                  encoderDeferred[d].stage = "settled"}]
    /\ UNCHANGED <<fut, settledLog, encoderDeferred, jobs, index, indices, stringified,
                   lastSentIndex, epc, raceSet, wire, decVars>>

\* The abort event, lines 259-261: every open race rejects with the reason.
\* start() runs inside encode(); a signal that fired before is aborted from the
\* beginning.
Abort ==
    /\ epc # "start"
    /\ signal.st = "idle"
    /\ signal' = [signal EXCEPT !.st = "aborted"]
    /\ LET hit == {d \in DOMAIN encoderDeferred : encoderDeferred[d].stage = "racing"}
           o == raceSignal(Pending, [signal EXCEPT !.st = "aborted"])
       IN  /\ encoderDeferred' = [d \in DOMAIN encoderDeferred |->
                 IF d \in hit
                 THEN [encoderDeferred[d] EXCEPT !.stage = "settled", !.out = o]
                 ELSE encoderDeferred[d]]
           /\ jobs' = jobs \o SeqOfSet(hit)
    /\ abortSnap' = [fired |-> TRUE, lines |-> Len(wire),
                     open |-> {d \in DOMAIN encoderDeferred :
                                  encoderDeferred[d].stage \in {"raw", "racing"}},
                     decided |-> {d \in DOMAIN encoderDeferred :
                                  encoderDeferred[d].stage = "settled"}]
    /\ UNCHANGED <<fut, settledLog, index, indices, stringified, lastSentIndex, epc,
                   raceSet, wire, decVars>>

EncodeInit ==
    /\ fut = [f \in Futures |-> Pending]
    /\ signal \in [st : {"none", "idle", "aborted"}, reason : SignalReasons]
    /\ signal.st = "none" => signal.reason = <<"err", 0>>
    /\ settledLog = [on |-> FALSE, log |-> <<>>]
    /\ encoderDeferred = Empty
    /\ index = 0
    /\ indices = Empty
    /\ stringified = <<>>
    /\ lastSentIndex = 0
    /\ epc = "start"
    /\ raceSet = {}
    /\ jobs = <<>>
    /\ wire = <<>>
    /\ abortSnap = [fired |-> FALSE, lines |-> 0, open |-> {}, decided |-> {}]

\* encode() as EncodeInit, with the history of the completions kept.
EncodeInitLogged ==
    /\ fut = [f \in Futures |-> Pending]
    /\ signal \in [st : {"none", "idle", "aborted"}, reason : SignalReasons]
    /\ signal.st = "none" => signal.reason = <<"err", 0>>
    /\ settledLog = [on |-> TRUE, log |-> <<>>]
    /\ encoderDeferred = Empty
    /\ index = 0
    /\ indices = Empty
    /\ stringified = <<>>
    /\ lastSentIndex = 0
    /\ epc = "start"
    /\ raceSet = {}
    /\ jobs = <<>>
    /\ wire = <<>>
    /\ abortSnap = [fired |-> FALSE, lines |-> 0, open |-> {}, decided |-> {}]

\* decode() has not been called.
DecodeIdle ==
    /\ rpos = 0
    /\ rstream = "readable"
    /\ dpc = "idle"
    /\ values = <<>>
    /\ decoderDeferred = Empty
    /\ derr = "none"
    /\ donePromise = "pending"
    /\ done = "pending"

\* ------------------------------------------------------------------- decode
\* The result of reader.read(): a line, the end of the stream, or a rejection
\* with the error of the transport.
ReadLine(line) == [t |-> "line", line |-> line]
ReadDone == [t |-> "done", line |-> [kind |-> "blank", m |-> "-", id |-> 0,
                                     p |-> SentinelPayload(0)]]
ReadError == [t |-> "error", line |-> ReadDone.line]

RECURSIVE hydrate(_, _)
\* hydrate.call(decoder, i): the value slot i stands for.  A plain fragment is
\* the object it describes, a placeholder fragment the placeholder of its id, an
\* alias the value of the slot it names.
hydrate(vals, i) ==
    IF i < 0 \/ i >= Len(vals) THEN None
    ELSE LET el == vals[i + 1]
         IN  IF el.k = "alias" THEN
                 IF el.ref[2] = i THEN None ELSE hydrate(vals, el.ref[2])
             ELSE el.ref

\* unflatten.call(decoder, payload): a sentinel is its literal; the elements of
\* an array are pushed onto decoder.values, every deferred marker among them
\* gets a placeholder registered under the id it carries, and the value is the
\* one of the first slot pushed.
unflatten(payload, dec) ==
    IF payload.t = "sent"
    THEN [value |-> <<"lit", payload.n>>, values |-> dec.values, deferred |-> dec.deferred]
    ELSE LET startIndex == Len(dec.values)
             pushed == dec.values \o payload.els
             ids == {payload.els[i].ref[2] : i \in {j \in 1..Len(payload.els) :
                                                      payload.els[j].k = "promise"}}
         IN  [value |-> hydrate(pushed, startIndex),
              values |-> pushed,
              deferred |-> [d \in ids \ DOMAIN dec.deferred |->
                               [st |-> "pending", v |-> None, by |-> 0]]
                           @@ dec.deferred]

Decoder == [values |-> values, deferred |-> decoderDeferred]

\* Number(line.slice(1, colonIndex)), lines 92 and 112: the id a frame names.
\* Text that is no number (written -1 in a line) gives NaN, which is the key of
\* no entry, as no negative number is.
Number(text) == IF text >= 0 THEN text ELSE -1

\* deferred.resolve / deferred.reject: the resolving functions of a promise act
\* on a pending promise only.
SettlePlaceholder(reg, d, st, v, by) ==
    IF reg[d].st = "pending"
    THEN [reg EXCEPT ![d] = [st |-> st, v |-> v, by |-> by]]
    ELSE reg

\* Mutant of decodeInitial: the catch block of lines 71-73 swallows the error of
\* JSON.parse, so a first line that does not parse hydrates to undefined.
decodeInitialSwallows(read) ==
    /\ dpc = "start"
    /\ rpos' = IF read.t = "line" THEN rpos + 1 ELSE rpos
    /\ IF read.t = "error"
       THEN /\ dpc' = "rejected"
            /\ derr' = "TransportError"
            /\ UNCHANGED <<values, decoderDeferred>>
       ELSE IF read.t = "done" \/ read.line.kind = "blank"
       THEN /\ dpc' = "rejected"
            /\ derr' = "SyntaxError"
            /\ UNCHANGED <<values, decoderDeferred>>
       ELSE IF read.line.kind # "json"
       THEN /\ dpc' = "reading"
            /\ UNCHANGED <<values, decoderDeferred, derr>>
       ELSE LET u == unflatten(read.line.p, Decoder)
            IN  /\ dpc' = "reading"
                /\ values' = u.values
                /\ decoderDeferred' = u.deferred
                /\ UNCHANGED derr
    /\ UNCHANGED <<donePromise, done>>

\* decodeInitial, lines 59-79, and decode up to its return, lines 35-56.
decodeInitial(read) ==
    /\ dpc = "start"
    /\ rpos' = IF read.t = "line" THEN rpos + 1 ELSE rpos
    /\ IF read.t = "error"
       THEN /\ dpc' = "rejected"
            /\ derr' = "TransportError"
            /\ UNCHANGED <<values, decoderDeferred>>
       ELSE IF read.t = "done" \/ read.line.kind # "json"
       THEN /\ dpc' = "rejected"
            /\ derr' = "SyntaxError"
            /\ UNCHANGED <<values, decoderDeferred>>
       ELSE LET u == unflatten(read.line.p, Decoder)
            IN  /\ dpc' = "reading"
                /\ values' = u.values
                /\ decoderDeferred' = u.deferred
                /\ UNCHANGED derr
    /\ UNCHANGED <<donePromise, done>>

\* Mutant of SettlementFrame: the `break` of line 126 is left out, so a rejection
\* frame falls through to the default case and its SyntaxError.
SettlementFrameFallsThrough(line, st) ==
    LET deferredId == Number(line.id)
    IN  IF deferredId \notin DOMAIN decoderDeferred
        THEN [dpc |-> "threw", derr |-> "NotFound", values |-> values,
              deferred |-> decoderDeferred]
        ELSE IF line.p.t = "bad"
        THEN [dpc |-> "threw", derr |-> "SyntaxError", values |-> values,
              deferred |-> decoderDeferred]
        ELSE LET u == unflatten(line.p, Decoder)
             IN  [dpc |-> IF st = "rejected" THEN "threw" ELSE "reading",
                  derr |-> IF st = "rejected" THEN "SyntaxError" ELSE derr,
                  values |-> u.values,
                  deferred |-> SettlePlaceholder(u.deferred, deferredId, st, u.value,
                                                 rpos + 1)]

\* What decodeDeferred does with a line that starts with TYPE_PROMISE or
\* TYPE_ERROR, lines 90-127: the new dpc, derr, values and registry.
SettlementFrame(line, st) ==
    LET deferredId == Number(line.id)
    IN  IF deferredId \notin DOMAIN decoderDeferred
        THEN [dpc |-> "threw", derr |-> "NotFound", values |-> values,
              deferred |-> decoderDeferred]
        ELSE IF line.p.t = "bad"
        THEN [dpc |-> "threw", derr |-> "SyntaxError", values |-> values,
              deferred |-> decoderDeferred]
        ELSE LET u == unflatten(line.p, Decoder)
             IN  [dpc |-> "reading", derr |-> derr, values |-> u.values,
                  deferred |-> SettlePlaceholder(u.deferred, deferredId, st, u.value,
                                                 rpos + 1)]

\* Mutant of Dispatch: no default case, a line with another marker is skipped.
DispatchLenient(line) ==
    IF line.kind = "frame" /\ line.m = TYPE_PROMISE THEN SettlementFrame(line, "fulfilled")
    ELSE IF line.kind = "frame" /\ line.m = TYPE_ERROR THEN SettlementFrame(line, "rejected")
    ELSE [dpc |-> "reading", derr |-> derr, values |-> values,
          deferred |-> decoderDeferred]

\* The switch of lines 89-130 on the first character of the line.
Dispatch(line) ==
    IF line.kind = "frame" /\ line.m = TYPE_PROMISE THEN SettlementFrame(line, "fulfilled")
    ELSE IF line.kind = "frame" /\ line.m = TYPE_ERROR THEN SettlementFrame(line, "rejected")
    ELSE [dpc |-> "threw", derr |-> "SyntaxError", values |-> values,
          deferred |-> decoderDeferred]

\* What the loop of lines 86-88 does with an empty line: `continue` goes back to
\* the loop test with the same read result, so the loop spins on it.
BlankLine ==
    [dpc |-> "spin", derr |-> derr, values |-> values, deferred |-> decoderDeferred]

\* One round of the loop of decodeDeferred, lines 85-132, on the result of a read.
decodeDeferred(read) ==
    /\ dpc = "reading"
    /\ rpos' = IF read.t = "line" THEN rpos + 1 ELSE rpos
    /\ LET to == IF read.t = "error"
                 THEN [dpc |-> "threw", derr |-> "TransportError", values |-> values,
                       deferred |-> decoderDeferred]
                 ELSE IF read.t = "done"
                 THEN [dpc |-> "returned", derr |-> derr, values |-> values,
                       deferred |-> decoderDeferred]
                 ELSE IF read.line.kind = "blank" THEN BlankLine
                 ELSE Dispatch(read.line)
       IN  /\ dpc' = to.dpc
           /\ derr' = to.derr
           /\ values' = to.values
           /\ decoderDeferred' = to.deferred
    /\ UNCHANGED <<donePromise, done>>

\* .then(done.resolve), line 43.
ThenDone ==
    /\ dpc = "returned"
    /\ dpc' = "finished"
    /\ done' = "fulfilled"
    /\ donePromise' = "fulfilled"
    /\ UNCHANGED <<envVars, encVars, wire, rpos, rstream, values, decoderDeferred, derr>>

\* Mutant of RejectAll: the loop of lines 45-47 is left out.
RejectNone(reg, reason) == reg

\* The registry after the loop of lines 45-47.
RejectAll(reg, reason) ==
    [d \in DOMAIN reg |-> SettlePlaceholder(reg, d, "rejected", <<reason, 0>>, 0)[d]]

\* The promise line 41 assigns once the catch callback has run: the callback
\* returns nothing, so the promise .catch() made is fulfilled.
CaughtDonePromise == "fulfilled"

\* The catch callback, lines 44-50.
CatchHandler ==
    /\ dpc = "threw"
    /\ dpc' = "failed"
    /\ decoderDeferred' = RejectAll(decoderDeferred, derr)
    /\ done' = "rejected"
    /\ donePromise' = CaughtDonePromise
    /\ UNCHANGED <<envVars, encVars, wire, rpos, rstream, values, derr>>

\* The state of the readable the reader holds: the stream of encode is closed
\* once controller.close() was called and every line was read.
StreamState ==
    IF rstream # "readable" THEN rstream
    ELSE IF epc = "closed" /\ rpos = Len(wire) THEN "closed"
    ELSE "readable"

\* reader.closed.
ReaderClosed ==
    IF StreamState = "closed" THEN [st |-> "fulfilled", e |-> "none"]
    ELSE IF StreamState = "errored" THEN [st |-> "rejected", e |-> "TransportError"]
    ELSE [st |-> "pending", e |-> "none"]

\* The `done` decode returns, line 54: donePromise.then(() => reader.closed).
ReturnedDone ==
    IF donePromise = "pending" THEN [st |-> "pending", e |-> "none"]
    ELSE ReaderClosed

\* -------------------------------------------------- decode fed by encode
\* What reader.read() gives on the stream encode made.
PipeRead ==
    IF rpos < Len(wire) THEN {ReadLine(wire[rpos + 1])}
    ELSE IF epc = "closed" THEN {ReadDone}
    ELSE {}

\* Mutant of PipeDecodeInitial: decode awaits the end of the stream (the close of
\* the writer) before it parses the first line.
PipeDecodeInitialAtEnd ==
    /\ epc = "closed"
    /\ \E read \in PipeRead : decodeInitial(read)
    /\ UNCHANGED <<envVars, encVars, wire, rstream>>

\* decode up to its return, line 35: decodeInitial on the first read.
PipeDecodeInitial ==
    /\ \E read \in PipeRead : decodeInitial(read)
    /\ UNCHANGED <<envVars, encVars, wire, rstream>>

PipeDecodeDeferred ==
    /\ \E read \in PipeRead : decodeDeferred(read)
    /\ UNCHANGED <<envVars, encVars, wire, rstream>>

\* decode() is called on the stream encode() returned.
DecodeReady ==
    /\ rpos = 0
    /\ rstream = "readable"
    /\ dpc = "start"
    /\ values = <<>>
    /\ decoderDeferred = Empty
    /\ derr = "none"
    /\ donePromise = "pending"
    /\ done = "pending"

\* ---------------------------------------------- decode fed by any stream
\* The ids the placeholders of an arbitrary stream carry.
FeedIds == {1, 2}
FeedObject == Plain(0, <<"obj", 0>>)
FeedArrays ==
    {ArrayPayload(<<FeedObject>> \o [i \in 1..Cardinality(S) |->
                                        PromiseFragment(SeqOfSet(S)[i])]) : S \in SUBSET FeedIds}
BadPayload == [t |-> "bad", n |-> 0, els |-> <<>>]
FeedPayloads == {SentinelPayload(-1)} \cup FeedArrays
BlankInput == [kind |-> "blank", m |-> "-", id |-> 0, p |-> SentinelPayload(0)]
JunkInput == [kind |-> "junk", m |-> "?", id |-> 0, p |-> SentinelPayload(0)]
\* The id text of a frame: a decimal id, or -1 for text that is no number.
FeedLines ==
    {BlankInput, JunkInput}
    \cup {InitialLine(p) : p \in FeedPayloads}
    \cup {Frame(m, t, p) : m \in {TYPE_PROMISE, TYPE_ERROR}, t \in FeedIds \cup {-1},
                           p \in FeedPayloads \cup {BadPayload}}

\* The ids of the deferred markers of a line.
MarkerIds(line) ==
    {line.p.els[i].ref[2] : i \in {j \in 1..Len(line.p.els) : line.p.els[j].k = "promise"}}

\* What reader.read() may give on an arbitrary stream: one more line (a deferred
\* marker comes once per id), the end, or an error of the transport.
FeedRead ==
    IF rstream # "readable" THEN {}
    ELSE {ReadDone, ReadError}
         \cup {ReadLine(l) : l \in {x \in FeedLines :
                   /\ Len(wire) < MaxLines
                   /\ MarkerIds(x) \cap DOMAIN decoderDeferred = {}}}

\* The stream after the read: the line is part of it, or it has ended.
Fed(read) ==
    /\ wire' = IF read.t = "line" THEN Append(wire, read.line) ELSE wire
    /\ rstream' = IF read.t = "done" THEN "closed"
                  ELSE IF read.t = "error" THEN "errored"
                  ELSE rstream

FeedDecodeInitial ==
    /\ \E read \in FeedRead : decodeInitial(read) /\ Fed(read)
    /\ UNCHANGED <<envVars, encVars>>

FeedDecodeDeferred ==
    /\ \E read \in FeedRead : decodeDeferred(read) /\ Fed(read)
    /\ UNCHANGED <<envVars, encVars>>

\* After decode stopped reading, the stream it holds ends (nothing is queued and
\* the source closes) or fails; it stays readable while lines wait unread.
FeedEnds(how) ==
    /\ dpc \in {"failed", "spin"}
    /\ rstream = "readable"
    /\ rstream' = how
    /\ UNCHANGED <<envVars, encVars, wire, rpos, dpc, values, decoderDeferred, derr,
                   donePromise, done>>

\* encode() is not part of the run.
EncodeIdle ==
    /\ fut = [f \in Futures |-> Pending]
    /\ signal = [st |-> "none", reason |-> <<"err", 0>>]
    /\ settledLog = [on |-> FALSE, log |-> <<>>]
    /\ encoderDeferred = Empty
    /\ index = 0
    /\ indices = Empty
    /\ stringified = <<>>
    /\ lastSentIndex = 0
    /\ epc = "idle"
    /\ raceSet = {}
    /\ jobs = <<>>
    /\ wire = <<>>
    /\ abortSnap = [fired |-> FALSE, lines |-> 0, open |-> {}, decided |-> {}]

\* ----------------------------------------------------------- specifications
EncodeNext ==
    \/ \E root \in Resolutions : Start(root)
    \/ OnResolved
    \/ OnRejected
    \/ \E d \in DOMAIN encoderDeferred : Finally(d)
    \/ LoopIter
    \/ Close
    \/ \E f \in Futures, o \in Outcomes : PromiseSettles(f, o)
    \/ Abort

PipeNext ==
    \/ PipeDecodeInitial
    \/ PipeDecodeDeferred
    \/ ThenDone

FeedNext ==
    \/ FeedDecodeInitial
    \/ FeedDecodeDeferred
    \/ ThenDone
    \/ CatchHandler
    \/ \E how \in {"closed", "errored"} : FeedEnds(how)

Next == EncodeNext \/ PipeNext

\* encode alone.
InitEncode == EncodeInit /\ DecodeIdle
SpecEncode == InitEncode /\ [][EncodeNext]_vars

\* encode alone, observed with the history of the completions.
InitOrder == EncodeInitLogged /\ DecodeIdle
SpecOrder == InitOrder /\ [][EncodeNext]_vars

\* encode, and decode reading the stream encode writes.
Init == EncodeInit /\ DecodeReady
Spec == Init /\ [][Next]_vars

\* decode alone, reading an arbitrary stream.
InitDecode == EncodeIdle /\ DecodeReady
SpecDecode == InitDecode /\ [][FeedNext]_vars

\* The promise jobs the event loop has queued are run, and start() runs when
\* the stream is made; nothing is assumed of the promises and of the signal.
EncodeFairness ==
    /\ WF_vars(\E root \in Resolutions : Start(root))
    /\ WF_vars(OnResolved)
    /\ WF_vars(OnRejected)
    /\ WF_vars(\E d \in DOMAIN encoderDeferred : Finally(d))
    /\ WF_vars(LoopIter)
    /\ WF_vars(Close)

FairEncode == SpecEncode /\ EncodeFairness

\* ------------------------------------------------------------------- claims
\* The promise f has been registered as a deferred entry, and under which id.
Registered(f) == <<"fut", f>> \in DOMAIN indices
IdOf(f) == indices[<<"fut", f>>]
\* The settlement lines on the wire that carry the id d.
FramesFor(d) == {i \in 1..Len(wire) : wire[i].kind = "frame" /\ wire[i].id = d}
FrameCount(f) == IF Registered(f) THEN Cardinality(FramesFor(IdOf(f))) ELSE 0
\* The future of f is settled, or the signal has fired.
Decided(f) == fut[f].st # "pending" \/ signal.st = "aborted"

\* C1: every deferred id that enters the encode-side registry, in the first
\* flatten or in the flatten of a settlement, gets exactly one settlement frame:
\* never two, and one at last once its future has settled or the signal has
\* fired, in whatever order the futures complete.
C1_ExactlyOneFrame ==
    /\ [](\A f \in Futures : FrameCount(f) <= 1)
    /\ \A f \in Futures : (Registered(f) /\ Decided(f)) ~> (FrameCount(f) = 1)

\* C1 witness: the stream is closed and all promises of the graph, the ones a
\* settlement registered among them, have their frame.
C1_Witness ==
    /\ epc = "closed"
    /\ \A f \in Futures : FrameCount(f) = 1
    /\ \E f \in Futures : IdOf(f) > Len(wire[1].p.els)

\* The promise registered under the id d.
IsDeferredId(d) == \E f \in Futures : Registered(f) /\ IdOf(f) = d
FutureOf(d) == CHOOSE f \in Futures : Registered(f) /\ IdOf(f) = d
\* The value a placeholder got is the one its promise gave; a reason that is no
\* Error arrives as the Error made in its place.
SameValue(got, sent) == got = sent \/ (sent[1] = "str" /\ got[1] = "new")

\* C2: when decode reads the lines encode writes, every placeholder is one of a
\* registered promise and is settled by the frame of its id in the way the frame
\* says; as long as the signal has not fired that is the way, and the value, of
\* its promise; and when decode has finished every registered promise has a
\* settled placeholder.  This is so for every order of the completions.
C2_PlaceholdersMatch ==
    /\ \A d \in DOMAIN decoderDeferred : IsDeferredId(d)
    /\ \A d \in DOMAIN decoderDeferred :
          LET ph == decoderDeferred[d]
          IN  ph.st # "pending" =>
                /\ ph.by \in FramesFor(d)
                /\ wire[ph.by].m = (IF ph.st = "fulfilled" THEN TYPE_PROMISE ELSE TYPE_ERROR)
                /\ signal.st # "aborted" =>
                      /\ ph.st = fut[FutureOf(d)].st
                      /\ SameValue(ph.v, fut[FutureOf(d)].v)
    /\ dpc = "finished" =>
          \A f \in Futures : Registered(f) =>
              /\ IdOf(f) \in DOMAIN decoderDeferred
              /\ decoderDeferred[IdOf(f)].st # "pending"

\* C2 witness: decode has finished a stream no signal cut short, with a
\* placeholder for every promise of the graph, fulfilled and rejected ones.
C2_Witness ==
    /\ dpc = "finished"
    /\ signal.st # "aborted"
    /\ Cardinality(DOMAIN decoderDeferred) = Cardinality(Futures)
    /\ \E d \in DOMAIN decoderDeferred : decoderDeferred[d].st = "fulfilled"
    /\ \E d \in DOMAIN decoderDeferred : decoderDeferred[d].st = "rejected"

\* The payload elements on the wire, as <<line, position>>, and the fragments
\* among them (an alias element names a fragment, it is none).
Carried == UNION {{<<l, j>> : j \in 1..Len(wire[l].p.els)} : l \in 1..Len(wire)}
Element(c) == wire[c[1]].p.els[c[2]]
CarriedFragments == {c \in Carried : Element(c).k # "alias"}
Copies(i) == {c \in CarriedFragments : Element(c).idx = i}
\* The indices of the table that hold a fragment.
TableFragments == {i \in 0..(Len(stringified) - 1) : stringified[i + 1].k # "hole"}

\* C3: over all lines of one encode, every fragment on the wire is a fragment of
\* the table, no fragment of the table is on the wire twice, and when the stream
\* closes every fragment is on the wire once, so that the lines carry as many
\* fragments as the table holds.
C3_EachFragmentOnce ==
    /\ \A c \in CarriedFragments :
          /\ Element(c).idx \in TableFragments
          /\ stringified[Element(c).idx + 1] = Element(c)
    /\ \A i \in TableFragments : Cardinality(Copies(i)) <= 1
    /\ epc = "closed" =>
          /\ \A i \in TableFragments : Cardinality(Copies(i)) = 1
          /\ Cardinality(CarriedFragments) = Cardinality(TableFragments)

\* C3 witness: a closed stream whose table grew with the settlements, one of
\* which was sent as an alias.
C3_Witness ==
    /\ epc = "closed"
    /\ Cardinality({l \in 1..Len(wire) : \E c \in CarriedFragments : c[1] = l}) >= 3
    /\ \E c \in Carried : Element(c).k = "alias"

\* The lines enqueued after the signal fired.
LinesAfterAbort == {i \in 1..Len(wire) : i > abortSnap.lines}

\* C4 as stated: when the signal fires with M deferred values outstanding (M
\* the entries whose race is open, or all entries without a frame), exactly M
\* more lines follow, all of them rejection frames.
C4_Original ==
    (epc = "closed" /\ abortSnap.fired) =>
        /\ Cardinality(LinesAfterAbort) \in
              {Cardinality(abortSnap.open), Cardinality(abortSnap.open \cup abortSnap.decided)}
        /\ \A i \in LinesAfterAbort : wire[i].m = TYPE_ERROR

\* C4 amended: when the signal fires, every entry whose race is open gets
\* exactly one frame, after that moment, and it is a rejection frame; every
\* later line is a rejection frame unless it belongs to an entry whose race was
\* decided before; the lines enqueued before stay as they are; and the stream is
\* closed in the end.
C4_CancellationRejectsOpenEntries ==
    /\ []((epc = "closed" /\ abortSnap.fired) =>
            \A d \in abortSnap.open :
                /\ Cardinality(FramesFor(d)) = 1
                /\ \A i \in FramesFor(d) : i \in LinesAfterAbort /\ wire[i].m = TYPE_ERROR)
    /\ [](abortSnap.fired =>
            \A i \in LinesAfterAbort :
                wire[i].id \notin abortSnap.decided => wire[i].m = TYPE_ERROR)
    /\ [][SubSeq(wire', 1, Len(wire)) = wire]_vars
    /\ (abortSnap.fired ~> epc = "closed")

\* C4 witness: the signal fired after a first settlement was on the wire, with
\* two races open, and the stream is closed.
C4_Witness ==
    /\ epc = "closed"
    /\ abortSnap.fired
    /\ abortSnap.lines >= 2
    /\ Cardinality(abortSnap.open) >= 2

\* C5: the stream is closed only with an empty registry and a frame on the wire
\* for every id ever registered; no line follows the close; and if from some
\* time on every registered promise is settled or the signal has fired, the
\* stream is closed at last.
C5_ClosesWhenDrained ==
    /\ [](epc = "closed" =>
            /\ DOMAIN encoderDeferred = {}
            /\ \A f \in Futures : Registered(f) => FrameCount(f) = 1)
    /\ [][epc = "closed" => wire' = wire /\ epc' = "closed"]_vars
    /\ (<>[](\A f \in Futures : Registered(f) => Decided(f))) => <>(epc = "closed")

\* C5 witness: a stream closed after the signal cut it short, settlements before
\* and after.
C5_Witness ==
    /\ epc = "closed"
    /\ abortSnap.fired
    /\ abortSnap.lines >= 2
    /\ Len(wire) > abortSnap.lines

\* The placeholders decode holds that no frame and no error has settled.
PendingPlaceholders == {d \in DOMAIN decoderDeferred : decoderDeferred[d].st = "pending"}
\* The line the step under way has read.
LineRead == wire'[rpos']
ReadsLine == dpc = "reading" /\ rpos' = rpos + 1
IsSettlementLine(line) == line.kind = "frame" /\ line.m \in {TYPE_PROMISE, TYPE_ERROR}

\* C6: when decodeDeferred has failed (a syntax error, an id that is not
\* registered, an error of the transport), the catch callback rejects every
\* placeholder that is pending at that moment with that error and leaves the
\* settled ones as they are; afterwards no placeholder is pending, nothing more
\* is read and no placeholder changes.
C6_ErrorRejectsPending ==
    /\ [][dpc = "threw" =>
            /\ dpc' = "failed"
            /\ \A d \in DOMAIN decoderDeferred :
                  decoderDeferred'[d] =
                      IF d \in PendingPlaceholders
                      THEN [st |-> "rejected", v |-> <<derr, 0>>, by |-> 0]
                      ELSE decoderDeferred[d]]_vars
    /\ [](dpc = "failed" => PendingPlaceholders = {})
    /\ [][dpc = "failed" =>
            /\ decoderDeferred' = decoderDeferred
            /\ rpos' = rpos
            /\ dpc' = "failed"]_vars

\* C6 witness: decode failed after a frame had settled one placeholder, and the
\* error rejected another.
C6_Witness ==
    /\ dpc = "failed"
    /\ \E d \in DOMAIN decoderDeferred : decoderDeferred[d].by > 0
    /\ \E d \in DOMAIN decoderDeferred :
          decoderDeferred[d] = [st |-> "rejected", v |-> <<derr, 0>>, by |-> 0]

\* C7 as stated: when decodeDeferred has failed and the catch callback has run,
\* the `done` decode returned is rejected with that error.
C7_DoneRejectsWithError ==
    dpc = "failed" => ReturnedDone = [st |-> "rejected", e |-> derr]

\* C8 as stated: when the stream has ended and `done` is fulfilled, no
\* registered placeholder is pending.
C8_DoneMeansAllSettled ==
    (dpc = "finished" /\ ReturnedDone.st = "fulfilled") => PendingPlaceholders = {}

\* C9 as stated: a settlement frame for a placeholder that an earlier frame has
\* settled makes decodeDeferred fail.
C9_SettledIdIsFatal ==
    [][(/\ ReadsLine
        /\ IsSettlementLine(LineRead)
        /\ Number(LineRead.id) \in DOMAIN decoderDeferred
        /\ Number(LineRead.id) \notin PendingPlaceholders)
       => dpc' = "threw"]_vars

\* C10: a line after the first whose first character is neither marker makes
\* decodeDeferred fail with a syntax error, a settlement frame whose id is not
\* in the registry makes it fail with the not-found error; either line leaves
\* the registry and the values as they were, and once decodeDeferred has failed
\* no line is read any more.
C10_MalformedFrameIsFatal ==
    /\ [][(ReadsLine /\ LineRead.kind # "blank" /\ ~IsSettlementLine(LineRead)) =>
            /\ dpc' = "threw"
            /\ derr' = "SyntaxError"
            /\ decoderDeferred' = decoderDeferred
            /\ values' = values]_vars
    /\ [][(/\ ReadsLine
           /\ IsSettlementLine(LineRead)
           /\ Number(LineRead.id) \notin DOMAIN decoderDeferred) =>
            /\ dpc' = "threw"
            /\ derr' = "NotFound"
            /\ decoderDeferred' = decoderDeferred
            /\ values' = values]_vars
    /\ [][(dpc = "threw" \/ dpc = "failed") =>
            /\ rpos' = rpos
            /\ wire' = wire
            /\ (dpc' = "threw" \/ dpc' = "failed")]_vars

\* C10 witness: decodeDeferred has just failed on a frame whose id is not
\* registered, with a placeholder still pending.
C10_Witness ==
    /\ dpc = "threw"
    /\ derr = "NotFound"
    /\ rpos >= 2
    /\ PendingPlaceholders # {}

\* The value a payload hydrates to: its literal, or what its first element is.
PayloadValue(p) == IF p.t = "sent" THEN <<"lit", p.n>> ELSE p.els[1].ref
\* The step under way reads a well-formed rejection frame of a pending placeholder.
ReadsRejectionOf(d) ==
    /\ ReadsLine
    /\ LineRead.kind = "frame"
    /\ LineRead.m = TYPE_ERROR
    /\ LineRead.p.t # "bad"
    /\ Number(LineRead.id) = d
    /\ d \in PendingPlaceholders

\* C11: a rejection frame for the id d of a pending placeholder is not fatal.
\* It rejects that placeholder with the value of its payload, leaves every other
\* placeholder as it was (the ones its payload registers start pending), sets no
\* error and leaves decodeDeferred reading; and when the stream then ends without
\* an error the `done` decode returned is fulfilled, rejection frames or not.
C11_RejectionFrameIsLocal ==
    /\ [][\A d \in DOMAIN decoderDeferred : ReadsRejectionOf(d) =>
            /\ dpc' = "reading"
            /\ derr' = derr
            /\ decoderDeferred'[d] =
                  [st |-> "rejected", v |-> PayloadValue(LineRead.p), by |-> rpos']
            /\ \A x \in DOMAIN decoderDeferred \ {d} :
                  decoderDeferred'[x] = decoderDeferred[x]
            /\ \A x \in DOMAIN decoderDeferred' \ DOMAIN decoderDeferred :
                  decoderDeferred'[x].st = "pending"]_vars
    /\ [](dpc = "finished" => ReturnedDone = [st |-> "fulfilled", e |-> "none"])

\* C11 witness: decode finished a stream in which a rejection frame settled one
\* placeholder and a later frame fulfilled another, and `done` is fulfilled.
C11_Witness ==
    /\ dpc = "finished"
    /\ ReturnedDone.st = "fulfilled"
    /\ \E d, x \in DOMAIN decoderDeferred :
          /\ decoderDeferred[d].st = "rejected"
          /\ decoderDeferred[d].by >= 2
          /\ decoderDeferred[x].st = "fulfilled"
          /\ decoderDeferred[x].by > decoderDeferred[d].by

\* The step under way is the one in which decode returns {value, done}.
DecodeReturns == dpc = "start" /\ dpc' \notin {"start", "rejected"}

\* C12: decode returns once the first line is there, whatever else the stream
\* holds and whether or not it has ended; at its return exactly one line is
\* consumed, decoder.values is the payload of that line, the placeholders are
\* the deferred markers of that line and all of them are pending, and `done` is
\* pending; whatever settles a placeholder is a line read later.
C12_InitialValueComesFirst ==
    /\ []((dpc = "start" /\ Len(wire) >= 1) => ENABLED PipeDecodeInitial)
    /\ [][DecodeReturns =>
            /\ rpos' = 1
            /\ dpc' = "reading"
            /\ values' = wire[1].p.els
            /\ DOMAIN decoderDeferred' = MarkerIds(wire[1])
            /\ \A d \in DOMAIN decoderDeferred' : decoderDeferred'[d].st = "pending"
            /\ donePromise' = "pending"]_vars
    /\ [](\A d \in DOMAIN decoderDeferred :
            decoderDeferred[d].st # "pending" => decoderDeferred[d].by >= 2)

\* C12 witness: decode has returned while the first line is all encode has
\* written, with placeholders pending and the stream open.
C12_Witness ==
    /\ dpc = "reading"
    /\ rpos = 1
    /\ Len(wire) = 1
    /\ epc # "closed"
    /\ PendingPlaceholders # {}
    /\ donePromise = "pending"

\* The line that carries the frame of the promise f.
FrameLine(f) == CHOOSE i \in FramesFor(IdOf(f)) : TRUE
\* The promise of the i-th completion has its frame before the one of the j-th.
FramedInOrder(i, j) ==
    LET a == settledLog.log[i].f
        b == settledLog.log[j].f
    IN  FrameCount(b) = 1 => (FrameCount(a) = 1 /\ FrameLine(a) < FrameLine(b))
\* The i-th completion decided a race that was open: the entry was awaited and
\* neither its promise nor the signal had settled it.
RaceWasOpen(i) == settledLog.log[i].stage = "racing"

\* C13 as stated: of any two registered promises, whenever they were
\* registered, the one that completed first has its frame first (looked at
\* only while no cancellation has taken part).
C13_Original ==
    signal.st # "aborted" =>
        \A i, j \in 1..Len(settledLog.log) : i < j => FramedInOrder(i, j)

\* C13 amended: of any two promises that completed while the encoder was
\* awaiting them with their races open, the one that completed first has its
\* frame first, whatever the order of their registration.
C13_OpenRacesInCompletionOrder ==
    \A i, j \in 1..Len(settledLog.log) :
        (i < j /\ RaceWasOpen(i) /\ RaceWasOpen(j)) => FramedInOrder(i, j)

\* C13 witness: two promises completed with their races open, the one
\* registered later first, and both frames are on the wire of a closed stream.
C13_Witness ==
    /\ epc = "closed"
    /\ \E i, j \in 1..Len(settledLog.log) :
          /\ i < j
          /\ RaceWasOpen(i)
          /\ RaceWasOpen(j)
          /\ IdOf(settledLog.log[i].f) > IdOf(settledLog.log[j].f)
          /\ FrameCount(settledLog.log[i].f) = 1
          /\ FrameCount(settledLog.log[j].f) = 1

\* C14 as stated: a blank line after the first settles no placeholder, raises
\* no error and leaves decodeDeferred reading the lines that follow.
C14_BlankLineIsSkipped ==
    [][(ReadsLine /\ LineRead.kind = "blank") =>
          /\ dpc' = "reading"
          /\ derr' = derr
          /\ decoderDeferred' = decoderDeferred]_vars

\* The step under way is the first read of decode, and it gives no line (the
\* stream has ended) or a line that is empty or no structured text.
FirstReadIsBad ==
    /\ dpc = "start"
    /\ dpc' # "start"
    /\ rstream' # "errored"
    /\ (rpos' = 0 \/ LineRead.kind # "json")

\* C15: when the first read gives no line, an empty line or a line that is no
\* structured text, decode is rejected with a SyntaxError: no value and no
\* `done` is returned (donePromise and done stay as they were made), nothing is
\* registered or settled, and decode does nothing more afterwards.
C15_BadFirstLineIsSyntaxError ==
    /\ [][FirstReadIsBad =>
            /\ dpc' = "rejected"
            /\ derr' = "SyntaxError"
            /\ decoderDeferred' = Empty
            /\ values' = <<>>
            /\ donePromise' = "pending"
            /\ done' = "pending"]_vars
    /\ [][dpc = "rejected" =>
            /\ dpc' = "rejected"
            /\ rpos' = rpos
            /\ decoderDeferred' = Empty
            /\ donePromise' = "pending"]_vars

\* C15 witness: decode was rejected with a SyntaxError on a first line that is
\* there and is neither empty nor structured text.
C15_Witness ==
    /\ dpc = "rejected"
    /\ derr = "SyntaxError"
    /\ rpos = 1
    /\ wire[1].kind \notin {"json", "blank"}
    /\ decoderDeferred = Empty

\* The step under way begins to await the entry d (line 171).
BeginsAwait(d) ==
    /\ d \in DOMAIN encoderDeferred'
    /\ encoderDeferred'[d].stage # "raw"
    /\ (d \notin DOMAIN encoderDeferred \/ encoderDeferred[d].stage = "raw")
\* What a cancelled signal rejects with (line 256).
CancellationReason ==
    IF signal.reason[1] = "nil" THEN <<"new", 0>> ELSE signal.reason
\* The line whose payload brought the placeholder of the id d.
Introduces(i, d) ==
    \E j \in 1..Len(wire[i].p.els) :
        wire[i].p.els[j].k = "promise" /\ wire[i].p.els[j].idx = d
\* The promise f was registered when the signal had fired already: encode was
\* called with a cancelled signal, or the line that brought its placeholder
\* came after the cancellation.
RegisteredCancelled(f) ==
    /\ Registered(f)
    /\ signal.st = "aborted"
    /\ abortSnap.fired =>
          \E i \in 1..Len(wire) : i > abortSnap.lines /\ Introduces(i, IdOf(f))
HasRejectionFrame(f) ==
    /\ FrameCount(f) = 1
    /\ \A i \in FramesFor(IdOf(f)) : wire[i].m = TYPE_ERROR

\* C16: an entry the encoder begins to await when the signal is cancelled is
\* not raced: it is rejected at once with the reason of the signal and its
\* callback is queued; and a promise registered after the cancellation, by the
\* first flatten or by the flatten of a later settlement, gets a rejection
\* frame and no other, whatever its own state.
C16_CancelledAtRaceStart ==
    /\ [][signal.st = "aborted" =>
            \A d \in DOMAIN encoderDeferred' : BeginsAwait(d) =>
                /\ encoderDeferred'[d].stage = "settled"
                /\ encoderDeferred'[d].out = Rejected(CancellationReason)
                /\ \E k \in 1..Len(jobs') : jobs'[k] = d]_vars
    /\ [](\A f \in Futures :
            (RegisteredCancelled(f) /\ FrameCount(f) > 0) => HasRejectionFrame(f))
    /\ \A f \in Futures : RegisteredCancelled(f) ~> HasRejectionFrame(f)

\* C16 witness: a promise that a settlement registered after the signal fired,
\* fulfilled itself, has its rejection frame.
C16_Witness ==
    /\ abortSnap.fired
    /\ \E f \in Futures :
          /\ RegisteredCancelled(f)
          /\ fut[f].st = "fulfilled"
          /\ HasRejectionFrame(f)

\* The step under way is the settlement of the entry d: its callback runs.
Settles(d) == jobs # <<>> /\ Head(jobs) = d /\ Len(wire') = Len(wire) + 1
\* The value the callback of d flattens, and the reference id flatten yields.
SettledValue(d) ==
    IF encoderDeferred[d].out.st = "fulfilled" THEN encoderDeferred[d].out.v
    ELSE NormaliseReason(encoderDeferred[d].out.v)
SettledId(d) == flatten(SettledValue(d), Encoder).id
\* The line the step under way has enqueued.
NewLine == wire'[Len(wire')]
\* The fragments of the table at the indices from+1 .. to.
FragmentsBetween(table, from, to) == [i \in 1..(to - from) |-> table[from + i + 1]]

\* C17: a settlement, resolution or rejection, enqueues one frame with the id
\* of its entry and the marker of its outcome.  If flatten yields a
\* back-reference, the payload is one alias element naming the index, cursor
\* and high-water mark go up by one and the table is unchanged; if it yields a
\* sentinel, the payload is the sentinel and cursor, high-water mark and table
\* are unchanged; otherwise the payload is the fragments after the old
\* high-water mark up to the new last index, which the high-water mark becomes.
C17_ThreeWayPayloadRule ==
    [][\A d \in DOMAIN encoderDeferred : Settles(d) =>
        /\ NewLine.kind = "frame"
        /\ NewLine.id = d
        /\ NewLine.m = (IF encoderDeferred[d].out.st = "fulfilled"
                        THEN TYPE_PROMISE ELSE TYPE_ERROR)
        /\ SettledId(d).shape = "backref" =>
              /\ NewLine.p.t = "arr"
              /\ Len(NewLine.p.els) = 1
              /\ NewLine.p.els[1].k = "alias"
              /\ NewLine.p.els[1].ref = <<"idx", SettledId(d).n>>
              /\ index' = index + 1
              /\ lastSentIndex' = lastSentIndex + 1
              /\ stringified' = stringified
        /\ SettledId(d).shape = "sentinel" =>
              /\ NewLine.p = SentinelPayload(SettledId(d).n)
              /\ index' = index
              /\ lastSentIndex' = lastSentIndex
              /\ stringified' = stringified
        /\ SettledId(d).shape = "index" =>
              /\ NewLine.p.t = "arr"
              /\ NewLine.p.els =
                    FragmentsBetween(stringified', lastSentIndex, Len(stringified') - 1)
              /\ Len(NewLine.p.els) > 0
              /\ lastSentIndex' = Len(stringified') - 1]_vars

\* C17 witness: a closed stream whose settlements took all three ways: one frame
\* carries a sentinel, one new fragments and one an alias.
C17_Witness ==
    /\ epc = "closed"
    /\ \E i \in 2..Len(wire) : wire[i].p.t = "sent"
    /\ \E i \in 2..Len(wire) : wire[i].p.t = "arr" /\ wire[i].p.els[1].k # "alias"
    /\ \E i \in 2..Len(wire) : wire[i].p.t = "arr" /\ wire[i].p.els[1].k = "alias"

\* The step under way registers the promise of the entry d, complete already.
RegistersComplete(d) ==
    /\ d \notin DOMAIN encoderDeferred
    /\ d \in DOMAIN encoderDeferred'
    /\ fut'[encoderDeferred'[d].f].st # "pending"

\* C18: on the stream encode makes, the line that brings the placeholder of an
\* id comes strictly before the frame of that id; an entry that is registered
\* with its promise complete already has its placeholder on the line of that
\* very step and no frame yet; and decode, reading the lines in order, finds
\* the id of every frame in its registry and never fails.
C18_FrameAfterPlaceholder ==
    /\ [](\A i \in 1..Len(wire) : wire[i].kind = "frame" =>
            \E j \in 1..(i - 1) : Introduces(j, wire[i].id))
    /\ [][\A d \in DOMAIN encoderDeferred' : RegistersComplete(d) =>
            /\ \A i \in 1..Len(wire') : ~(wire'[i].kind = "frame" /\ wire'[i].id = d)
            /\ \E j \in 1..Len(wire'[Len(wire')].p.els) :
                  /\ wire'[Len(wire')].p.els[j].k = "promise"
                  /\ wire'[Len(wire')].p.els[j].idx = d]_vars
    /\ [][(ReadsLine /\ IsSettlementLine(LineRead)) =>
            Number(LineRead.id) \in DOMAIN decoderDeferred]_vars
    /\ [](dpc # "threw" /\ derr = "none")

\* C18 witness: decode has finished a stream in which a settlement frame brought
\* a placeholder and the very next line settled it.
C18_Witness ==
    /\ dpc = "finished"
    /\ \E d \in DOMAIN decoderDeferred : \E j \in 2..Len(wire) :
          /\ Introduces(j, d)
          /\ decoderDeferred[d].by = j + 1

\* The first line is on the wire and it is a fragment table.
TableSent == wire # <<>> /\ wire[1].p.t = "arr"
\* The fragments the step under way has appended to the table.
Appended ==
    {stringified'[i] : i \in {k \in (Len(stringified) + 1)..Len(stringified') :
                                  stringified'[k].k # "hole"}}

\* C19: once the first line, a fragment table, is on the wire, after it and
\* after every settlement the high-water mark is the cursor minus one and the
\* number of payload elements on the wire (alias elements among them) minus
\* one, and no fragment of the table lies beyond it; it never goes down; and a
\* frame that carries fragments carries exactly the fragments its own
\* settlement appended, in whatever order resolutions, rejections and
\* back-references come.
C19_HighWaterMarkTracksCursor ==
    /\ [](TableSent =>
            /\ lastSentIndex = index - 1
            /\ lastSentIndex = Cardinality(Carried) - 1
            /\ Len(stringified) - 1 <= lastSentIndex)
    /\ [][TableSent => lastSentIndex' >= lastSentIndex]_vars
    /\ [][\A d \in DOMAIN encoderDeferred :
            (TableSent /\ Settles(d) /\ SettledId(d).shape = "index") =>
                /\ {NewLine.p.els[j] : j \in 1..Len(NewLine.p.els)} = Appended
                /\ Len(NewLine.p.els) = Cardinality(Appended)]_vars

\* C19 witness: a closed stream on which a rejection and a frame with new
\* fragments follow a back-reference settlement.
C19_Witness ==
    /\ epc = "closed"
    /\ TableSent
    /\ \E i, j \in 2..Len(wire) :
          /\ i < j
          /\ wire[i].p.t = "arr"
          /\ wire[i].p.els[1].k = "alias"
          /\ wire[j].p.t = "arr"
          /\ wire[j].p.els[1].k # "alias"
    /\ \E i \in 2..Len(wire) : wire[i].m = TYPE_ERROR
====
